---- MODULE Spec2Model ----
(***************************************************************************)
(* Model of static/js/main.js: the chat widget (submit / reply / error     *)
(* flow, history replay, clear-history) and the math-segment protection    *)
(* pipeline (extractMathSegments -> marked.parse -> restoreMathSegments).  *)
(* Strings are sequences of one-character strings.                         *)
(*                                                                         *)
(*   Spec        the whole widget: submit, /chat responses, clear-history, *)
(*               history replay, interleaved at every await                *)
(*   SpecReply   the submit handler with every response body of ChatBodies *)
(*   SpecReplay  history replay with every history of up to MaxHist turns  *)
(*   SpecMath    extract -> parse -> restore over the texts of Texts       *)
(***************************************************************************)
EXTENDS Integers, Sequences, FiniteSets, TLC

\* ------------------------------------------------------------------------
\* Bounds
\* ------------------------------------------------------------------------
MaxPieces == 4
MaxSubmits == 2
MaxClears == 1
MaxHist == 2

\* ------------------------------------------------------------------------
\* Characters and small helpers
\* ------------------------------------------------------------------------
DigitChars == <<"0", "1", "2", "3", "4", "5", "6", "7", "8", "9">>

IsDigit(c) == \E d \in 1..10 : DigitChars[d] = c

DigitVal(c) == (CHOOSE d \in 1..10 : DigitChars[d] = c) - 1

Whitespace == {" ", "\n", "\t"}

MinOf(S) == CHOOSE x \in S : \A y \in S : x <= y

RECURSIVE Flatten(_)
Flatten(ss) == IF ss = <<>> THEN <<>> ELSE Head(ss) \o Flatten(Tail(ss))

\* `${id}` : decimal rendering of a non-negative integer
RECURSIVE NumToString(_)
NumToString(n) ==
    IF n < 10 THEN <<DigitChars[n + 1]>>
    ELSE NumToString(n \div 10) \o <<DigitChars[(n % 10) + 1]>>

\* Number(i) for a non-empty string of decimal digits
RECURSIVE StringToNum(_)
StringToNum(ds) ==
    IF ds = <<>> THEN 0
    ELSE 10 * StringToNum(SubSeq(ds, 1, Len(ds) - 1)) + DigitVal(ds[Len(ds)])

\* String.prototype.trim
RECURSIVE TrimStart(_)
TrimStart(s) ==
    IF s # <<>> /\ Head(s) \in Whitespace THEN TrimStart(Tail(s)) ELSE s

RECURSIVE TrimEnd(_)
TrimEnd(s) ==
    IF s # <<>> /\ s[Len(s)] \in Whitespace
    THEN TrimEnd(SubSeq(s, 1, Len(s) - 1)) ELSE s

Trim(s) == TrimEnd(TrimStart(s))

\* ------------------------------------------------------------------------
\* extractMathSegments / restoreMathSegments
\* ------------------------------------------------------------------------
TokenPrefix == <<"@", "@", "M", "A", "T", "H">>

\* the template literal `@@MATH${id}@@`
Token(id) == TokenPrefix \o NumToString(id) \o <<"@", "@">>

\* smallest j >= from with s[j] = a and s[j+1] = b, 0 when there is none
FirstPair(s, a, b, from) ==
    LET C == {j \in from..(Len(s) - 1) : s[j] = a /\ s[j + 1] = b}
    IN  IF C = {} THEN 0 ELSE MinOf(C)

\* smallest j >= from with s[j] in cs, Len(s)+1 when there is none
FirstOf(s, cs, from) ==
    LET C == {j \in from..Len(s) : s[j] \in cs}
    IN  IF C = {} THEN Len(s) + 1 ELSE MinOf(C)

\* variant of patterns with the single-dollar pattern first
patternsInlineFirst == <<3, 1, 2, 4>>

\* The order of the patterns array: 1 = $$..$$, 2 = \[..\], 3 = $..$,
\* 4 = \(..\)
patterns == <<1, 2, 3, 4>>

\* variant of MatchEnd whose single-dollar pattern has optional delimiters,
\* /\$?[^$\n]+\$?/
MatchEndOptionalDollar(re, s, i) ==
    CASE re = 1 ->
            IF i + 1 <= Len(s) /\ s[i] = "$" /\ s[i + 1] = "$"
            THEN LET j == FirstPair(s, "$", "$", i + 2)
                 IN  IF j = 0 THEN 0 ELSE j + 1
            ELSE 0
      [] re = 2 ->
            IF i + 1 <= Len(s) /\ s[i] = "\\" /\ s[i + 1] = "["
            THEN LET j == FirstPair(s, "\\", "]", i + 2)
                 IN  IF j = 0 THEN 0 ELSE j + 1
            ELSE 0
      [] re = 3 ->
            LET b == IF s[i] = "$" THEN i + 1 ELSE i
                k == FirstOf(s, {"$", "\n"}, b)
            IN  IF k > b
                THEN (IF k <= Len(s) /\ s[k] = "$" THEN k ELSE k - 1)
                ELSE 0
      [] re = 4 ->
            IF i + 1 <= Len(s) /\ s[i] = "\\" /\ s[i + 1] = "("
            THEN LET j == FirstOf(s, {"\\"}, i + 2)
                 IN  IF j + 1 <= Len(s) /\ s[j + 1] = ")" THEN j + 1 ELSE 0
            ELSE 0

\* Index of the last character of the match of pattern re that starts at
\* position i of s, 0 when the pattern does not match at i.
MatchEnd(re, s, i) ==
    CASE re = 1 ->   \* /\$\$[\s\S]*?\$\$/
            IF i + 1 <= Len(s) /\ s[i] = "$" /\ s[i + 1] = "$"
            THEN LET j == FirstPair(s, "$", "$", i + 2)
                 IN  IF j = 0 THEN 0 ELSE j + 1
            ELSE 0
      [] re = 2 ->   \* /\\\[[\s\S]*?\\\]/
            IF i + 1 <= Len(s) /\ s[i] = "\\" /\ s[i + 1] = "["
            THEN LET j == FirstPair(s, "\\", "]", i + 2)
                 IN  IF j = 0 THEN 0 ELSE j + 1
            ELSE 0
      [] re = 3 ->   \* /\$[^$\n]+\$/
            IF s[i] = "$"
            THEN LET k == FirstOf(s, {"$", "\n"}, i + 1)
                 IN  IF k >= i + 2 /\ k <= Len(s) /\ s[k] = "$" THEN k ELSE 0
            ELSE 0
      [] re = 4 ->   \* /\\\([^\\]*?\\\)/
            IF i + 1 <= Len(s) /\ s[i] = "\\" /\ s[i + 1] = "("
            THEN LET j == FirstOf(s, {"\\"}, i + 2)
                 IN  IF j + 1 <= Len(s) /\ s[j + 1] = ")" THEN j + 1 ELSE 0
            ELSE 0

\* replaced.replace(re, (m) => { id = math.length; math.push(m); token })
\* scanning s from position i; out is the text produced so far.
RECURSIVE ReplacePass(_, _, _, _, _)
ReplacePass(re, s, i, out, math0) ==
    IF i > Len(s) THEN [replaced |-> out, math |-> math0]
    ELSE LET e == MatchEnd(re, s, i)
         IN  IF e = 0
             THEN ReplacePass(re, s, i + 1, Append(out, s[i]), math0)
             ELSE ReplacePass(re, s, e + 1, out \o Token(Len(math0)),
                              Append(math0, SubSeq(s, i, e)))

RECURSIVE ForEachPattern(_, _)
ForEachPattern(res, acc) ==
    IF res = <<>> THEN acc
    ELSE ForEachPattern(Tail(res),
                        ReplacePass(Head(res), acc.replaced, 1, <<>>, acc.math))

extractMathSegments(t) ==
    ForEachPattern(patterns, [replaced |-> t, math |-> <<>>])

\* End of the match of /@@MATH(\d+)@@/ starting at position i, 0 if none
TokenEnd(s, i) ==
    IF i + 5 <= Len(s) /\ SubSeq(s, i, i + 5) = TokenPrefix
    THEN LET d == MinOf({j \in (i + 6)..(Len(s) + 1) :
                            j = Len(s) + 1 \/ ~IsDigit(s[j])})
         IN  IF d > i + 6 /\ d + 1 <= Len(s) /\ s[d] = "@" /\ s[d + 1] = "@"
             THEN d + 1 ELSE 0
    ELSE 0

\* variant of SegmentOr that leaves the token of an unknown index in place
SegmentOrKeepsToken(math0, n) ==
    IF n + 1 <= Len(math0) /\ math0[n + 1] # <<>> THEN math0[n + 1] ELSE Token(n)

\* math[Number(i)] || ''
SegmentOr(math0, n) ==
    IF n + 1 <= Len(math0) /\ math0[n + 1] # <<>> THEN math0[n + 1] ELSE <<>>

RECURSIVE RestoreFrom(_, _, _, _)
RestoreFrom(s, math0, i, out) ==
    IF i > Len(s) THEN out
    ELSE LET e == TokenEnd(s, i)
         IN  IF e = 0
             THEN RestoreFrom(s, math0, i + 1, Append(out, s[i]))
             ELSE RestoreFrom(s, math0, e + 1,
                     out \o SegmentOr(math0, StringToNum(SubSeq(s, i + 6, e - 2))))

restoreMathSegments(html, math0) == RestoreFrom(html, math0, 1, <<>>)

\* ------------------------------------------------------------------------
\* escapeHtml, marked.parse, JSON.stringify
\* ------------------------------------------------------------------------
EscapeChar(c) ==
    CASE c = "&"  -> <<"&", "a", "m", "p", ";">>
      [] c = "<"  -> <<"&", "l", "t", ";">>
      [] c = ">"  -> <<"&", "g", "t", ";">>
      [] c = "\"" -> <<"&", "q", "u", "o", "t", ";">>
      [] c = "'"  -> <<"&", "#", "0", "3", "9", ";">>
      [] OTHER    -> <<c>>

RECURSIVE escapeHtml(_)
escapeHtml(str) ==
    IF str = <<>> THEN <<>> ELSE EscapeChar(Head(str)) \o escapeHtml(Tail(str))

\* The part of marked.parse (options breaks: true) that matters to the
\* pipeline: empty input renders to the empty string; otherwise the text is
\* wrapped in a paragraph, a backslash in front of a punctuation character is
\* dropped (the mangling the extractor protects LaTeX from), and a newline
\* becomes <br>.
MarkedPunct == {"\\", "[", "]", "(", ")", "$", "@"}

RECURSIVE MarkedInline(_, _)
MarkedInline(s, i) ==
    IF i > Len(s) THEN <<>>
    ELSE IF s[i] = "\\" /\ i + 1 <= Len(s) /\ s[i + 1] \in MarkedPunct
         THEN <<s[i + 1]>> \o MarkedInline(s, i + 2)
         ELSE IF s[i] = "\n"
              THEN <<"<", "b", "r", ">">> \o MarkedInline(s, i + 1)
              ELSE <<s[i]>> \o MarkedInline(s, i + 1)

MarkedParse(s) ==
    IF s = <<>> THEN <<>>
    ELSE <<"<", "p", ">">> \o MarkedInline(s, 1) \o <<"<", "/", "p", ">", "\n">>

\* JSON values of the fields of a /chat response body
Undefined == [t |-> "undefined", v |-> <<>>]
NullV     == [t |-> "null", v |-> <<>>]
Str(s)    == [t |-> "string", v |-> s]
Num(n)    == [t |-> "number", v |-> NumToString(n)]

RECURSIVE JsonQuoteChars(_)
JsonQuoteChars(s) ==
    IF s = <<>> THEN <<>>
    ELSE (IF Head(s) \in {"\"", "\\"} THEN <<"\\", Head(s)>>
          ELSE IF Head(s) = "\n" THEN <<"\\", "n">>
          ELSE <<Head(s)>>) \o JsonQuoteChars(Tail(s))

JsonValue(x) ==
    CASE x.t = "string" -> <<"\"">> \o JsonQuoteChars(x.v) \o <<"\"">>
      [] x.t = "number" -> x.v
      [] x.t = "null"   -> <<"n", "u", "l", "l">>

JsonMember(key, x) ==
    IF x.t = "undefined" THEN <<>>
    ELSE <<"\"">> \o key \o <<"\"", ":">> \o JsonValue(x)

\* JSON.stringify(data) for an object body with the members output, reply
JSONStringify(data) ==
    LET o == JsonMember(<<"o", "u", "t", "p", "u", "t">>, data.output)
        r == JsonMember(<<"r", "e", "p", "l", "y">>, data.reply)
    IN  <<"{">> \o o \o (IF o # <<>> /\ r # <<>> THEN <<",">> ELSE <<>>)
              \o r \o <<"}">>

\* variant of ReplyRaw that skips an empty string field
ReplyRawSkippingEmpty(data) ==
    IF data.output.t = "string" /\ data.output.v # <<>> THEN data.output.v
    ELSE IF data.reply.t = "string" /\ data.reply.v # <<>> THEN data.reply.v
    ELSE JSONStringify(data)

\* replyRaw: typeof data.output === 'string' ? data.output :
\*           typeof data.reply === 'string' ? data.reply : JSON.stringify(data)
ReplyRaw(data) ==
    IF data.output.t = "string" THEN data.output.v
    ELSE IF data.reply.t = "string" THEN data.reply.v
    ELSE JSONStringify(data)

\* extractMathSegments -> marked.parse -> restoreMathSegments
RenderReply(replyText) ==
    LET ex == extractMathSegments(replyText)
    IN  restoreMathSegments(MarkedParse(ex.replaced), ex.math)

\* ------------------------------------------------------------------------
\* State
\* ------------------------------------------------------------------------
VARIABLES
    chatInput,      \* chatInput.value
    chatMessages,   \* children of #chatMessages, in document order
    chats,          \* submit handlers suspended at an await (/chat requests)
    nextId,         \* identity of the next submit handler invocation
    chatFetches,    \* number of fetch('/chat') calls made so far
    clears,         \* chatClear click handlers awaiting their fetch
    history,        \* position of the DOMContentLoaded handler
    event,          \* the handler (or continuation) that ran last
    text,           \* pipeline: raw text given to extractMathSegments
    stage,          \* pipeline: position in extract -> parse -> restore
    replaced,       \* pipeline: extractMathSegments(text).replaced
    math,           \* pipeline: extractMathSegments(text).math
    htmlWithPlaceholders,   \* pipeline: marked.parse(replaced)
    replyHtml,      \* pipeline: result of restoreMathSegments
    hidden,         \* chatModal.classList.contains('hidden')
    mathJax,        \* what window.MathJax is at the moment
    typesetWaiting, \* then-callbacks waiting for mj.startup.promise
    typesetCalls    \* number of mj.typesetPromise invocations so far

\* the modal and the typesetting engine of the page
pageVars == <<hidden, mathJax, typesetWaiting, typesetCalls>>

widgetVars == <<chatInput, chatMessages, chats, nextId, chatFetches, clears,
                history, event, hidden, mathJax, typesetWaiting, typesetCalls>>

pipeVars == <<text, stage, replaced, math, htmlWithPlaceholders, replyHtml>>

vars == <<chatInput, chatMessages, chats, nextId, chatFetches, clears,
          history, event, text, stage, replaced, math, htmlWithPlaceholders,
          replyHtml, hidden, mathJax, typesetWaiting, typesetCalls>>

\* ------------------------------------------------------------------------
\* Bubbles of the message panel
\* ------------------------------------------------------------------------
\* owner: the submit handler invocation that inserted the element (0 for
\* elements of the page, of history replay and of clear-history)
DefaultGreeting == [kind |-> "greeting", owner |-> 0, body |-> <<>>]

ClearedMessage == [kind |-> "cleared", owner |-> 0, body |-> <<>>]

\* variant of UserBubble that inserts the text as it was typed
UserBubbleRaw(id, t) == [kind |-> "user", owner |-> id, body |-> t]

UserBubble(id, t) == [kind |-> "user", owner |-> id, body |-> escapeHtml(t)]

TypingBubble(id) == [kind |-> "typing", owner |-> id, body |-> <<>>]

AssistantBubble(id, html) == [kind |-> "assistant", owner |-> id, body |-> html]

ErrorBubble(id) == [kind |-> "error", owner |-> id, body |-> <<>>]

\* variant of RemoveTyping that finds no element to remove
RemoveTypingNone(msgs) == msgs

\* const typingEl = document.getElementById('assistant-typing');
\* if (typingEl) typingEl.remove();   -- the first such element, if any
RemoveTyping(msgs) ==
    LET T == {i \in 1..Len(msgs) : msgs[i].kind = "typing"}
    IN  IF T = {} THEN msgs
        ELSE LET i == MinOf(T)
             IN  SubSeq(msgs, 1, i - 1) \o SubSeq(msgs, i + 1, Len(msgs))

\* ------------------------------------------------------------------------
\* Inputs
\* ------------------------------------------------------------------------
Hello == <<"h", "e", "l", "l", "o">>
Hi == <<"h", "i">>

\* values the user can leave in the textarea
InputValues == { <<>>, <<" ", "\n">>, <<" ", "a", "<", "b", " ">> }

\* bodies of 2xx /chat responses (JSON null, or an object)
JsonNull == [kind |-> "null", output |-> Undefined, reply |-> Undefined]

Obj(o, r) == [kind |-> "object", output |-> o, reply |-> r]

ChatBodies ==
    { Obj(Str(Hello), Undefined),
      Obj(Undefined, Str(Hi)),
      Obj(Undefined, Undefined),
      Obj(Str(<<>>), Str(Hi)),
      JsonNull }

\* the /chat bodies of the widget specification: a reply, and an empty reply
WidgetBodies ==
    { Obj(Str(Hello), Undefined),
      Obj(Str(<<>>), Str(Hi)) }

NoEvent == [op |-> "none", id |-> 0, arg |-> <<>>]

Ev(op, id, arg) == [op |-> op, id |-> id, arg |-> arg]

\* ------------------------------------------------------------------------
\* chatForm submit handler
\* ------------------------------------------------------------------------
\* User events (typing, submit, click on chatClear) are dispatched once the
\* document has been parsed, that is after DOMContentLoaded has fired and the
\* history fetch has been issued (history # "init").

\* the user edits the textarea ('input' listener only resizes it)
TypeInput(v) ==
    /\ history # "init"
    /\ v # chatInput
    /\ chatInput' = v
    /\ event' = Ev("input", 0, <<>>)
    /\ UNCHANGED <<chatMessages, chats, nextId, chatFetches, clears,
                   history>>
    /\ UNCHANGED pipeVars
    /\ UNCHANGED pageVars

\* variant of Submit that clears the textarea before the emptiness guard
SubmitClearsFirst ==
    LET t == Trim(chatInput)
    IN  /\ history # "init"
        /\ chatInput' = <<>>
        /\ IF t = <<>>
           THEN /\ event' = Ev("submit", 0, <<>>)
                /\ UNCHANGED <<chatMessages, chats, nextId, chatFetches>>
           ELSE /\ nextId <= MaxSubmits
                /\ chatMessages' = chatMessages \o
                       <<UserBubble(nextId, t), TypingBubble(nextId)>>
                /\ chats' = chats \cup
                       {[id |-> nextId, phase |-> "fetch",
                         body |-> [message |-> t, messages |-> t]]}
                /\ chatFetches' = chatFetches + 1
                /\ nextId' = nextId + 1
                /\ event' = Ev("submit", nextId, t)
        /\ UNCHANGED <<clears, history>>
        /\ UNCHANGED pipeVars
        /\ UNCHANGED pageVars

\* variant of Submit with an in-flight guard: a submit is dropped while a
\* /chat request is outstanding
SubmitWhenIdle ==
    LET t == Trim(chatInput)
    IN  /\ history # "init"
        /\ IF t = <<>> \/ chats # {}
           THEN /\ event' = Ev("submit", 0, <<>>)
                /\ UNCHANGED <<chatInput, chatMessages, chats, nextId,
                               chatFetches>>
           ELSE /\ nextId <= MaxSubmits
                /\ chatMessages' = chatMessages \o
                       <<UserBubble(nextId, t), TypingBubble(nextId)>>
                /\ chatInput' = <<>>
                /\ chats' = chats \cup
                       {[id |-> nextId, phase |-> "fetch",
                         body |-> [message |-> t, messages |-> t]]}
                /\ chatFetches' = chatFetches + 1
                /\ nextId' = nextId + 1
                /\ event' = Ev("submit", nextId, t)
        /\ UNCHANGED <<clears, history>>
        /\ UNCHANGED pipeVars
        /\ UNCHANGED pageVars

\* submit event up to the first await (fetch('/chat', ...))
Submit ==
    LET t == Trim(chatInput)
    IN  /\ history # "init"
        /\ IF t = <<>>
           THEN /\ event' = Ev("submit", 0, <<>>)
                /\ UNCHANGED <<chatInput, chatMessages, chats, nextId,
                               chatFetches>>
           ELSE /\ nextId <= MaxSubmits
                /\ chatMessages' = chatMessages \o
                       <<UserBubble(nextId, t), TypingBubble(nextId)>>
                /\ chatInput' = <<>>
                /\ chats' = chats \cup
                       {[id |-> nextId, phase |-> "fetch",
                         body |-> [message |-> t, messages |-> t]]}
                /\ chatFetches' = chatFetches + 1
                /\ nextId' = nextId + 1
                /\ event' = Ev("submit", nextId, t)
        /\ UNCHANGED <<clears, history>>
        /\ UNCHANGED pipeVars
        /\ UNCHANGED pageVars

\* variant of Catch that leaves the typing element in place
CatchKeepsTyping(r) ==
    /\ chatMessages' = Append(chatMessages, ErrorBubble(r.id))
    /\ chats' = chats \ {r}

\* catch (err) { ... }: remove the typing element, append the error bubble
Catch(r) ==
    /\ chatMessages' = Append(RemoveTyping(chatMessages), ErrorBubble(r.id))
    /\ chats' = chats \ {r}

\* fetch('/chat') rejects: control goes to the catch block
ChatFetchRejected(r) ==
    /\ r \in chats /\ r.phase = "fetch"
    /\ Catch(r)
    /\ event' = Ev("chatFetchRejected", r.id, <<>>)
    /\ UNCHANGED <<chatInput, nextId, chatFetches, clears, history>>
    /\ UNCHANGED pipeVars
    /\ UNCHANGED pageVars

\* fetch('/chat') resolves; !res.ok awaits res.text(), else awaits res.json()
ChatFetchResolved(r, ok) ==
    /\ r \in chats /\ r.phase = "fetch"
    /\ chats' = (chats \ {r}) \cup
           {[r EXCEPT !.phase = IF ok THEN "json" ELSE "text"]}
    /\ event' = Ev(IF ok THEN "chatFetchOk" ELSE "chatFetchNotOk", r.id, <<>>)
    /\ UNCHANGED <<chatInput, chatMessages, nextId, chatFetches, clears,
                   history>>
    /\ UNCHANGED pipeVars
    /\ UNCHANGED pageVars

\* variant of ChatServerError that issues the request once more
ChatServerErrorRetries(r) ==
    /\ r \in chats /\ r.phase = "text"
    /\ chats' = (chats \ {r}) \cup {[r EXCEPT !.phase = "fetch"]}
    /\ chatFetches' = chatFetches + 1
    /\ event' = Ev("chatServerError", r.id, <<>>)
    /\ UNCHANGED <<chatInput, chatMessages, nextId, clears, history>>
    /\ UNCHANGED pipeVars
    /\ UNCHANGED pageVars

\* res.text() settles (either way), then throw new Error(...) -> catch
ChatServerError(r) ==
    /\ r \in chats /\ r.phase = "text"
    /\ Catch(r)
    /\ event' = Ev("chatServerError", r.id, <<>>)
    /\ UNCHANGED <<chatInput, nextId, chatFetches, clears, history>>
    /\ UNCHANGED pipeVars
    /\ UNCHANGED pageVars

\* res.json() rejects (body is not JSON) -> catch
ChatJsonRejected(r) ==
    /\ r \in chats /\ r.phase = "json"
    /\ Catch(r)
    /\ event' = Ev("chatJsonRejected", r.id, <<>>)
    /\ UNCHANGED <<chatInput, nextId, chatFetches, clears, history>>
    /\ UNCHANGED pipeVars
    /\ UNCHANGED pageVars

\* variant of TypesetWhenReady that does not wait for mj.startup.promise
TypesetAtOnce ==
    /\ typesetCalls' = IF mathJax \in {"loading", "ready"}
                       THEN typesetCalls + 1 ELSE typesetCalls
    /\ UNCHANGED typesetWaiting

\* if (window.MathJax) {
\*   (mj.startup?.promise || Promise.resolve())
\*       .then(() => mj.typesetPromise(...)).catch(...)
\* }
\* "undefined": the block is skipped.  "config": mj is the configuration
\* object of the page, it has no startup and no typesetPromise, the callback
\* throws a TypeError which .catch logs.  "loading": the callback waits for
\* startup.promise.  "ready": the promise is resolved, the callback runs
\* before any other event.
TypesetWhenReady ==
    /\ typesetCalls' = IF mathJax = "ready"
                       THEN typesetCalls + 1 ELSE typesetCalls
    /\ typesetWaiting' = IF mathJax = "loading"
                         THEN typesetWaiting + 1 ELSE typesetWaiting

\* res.json() resolves with data; the rest of the try block runs
ChatReply(r, data) ==
    /\ r \in chats /\ r.phase = "json"
    /\ IF data.kind = "null"
       THEN /\ Catch(r)       \* data.output throws a TypeError
            /\ UNCHANGED <<typesetWaiting, typesetCalls>>
       ELSE LET replyText == Trim(ReplyRaw(data))
            IN  /\ chats' = chats \ {r}
                /\ IF replyText = <<>>
                   THEN /\ chatMessages' = RemoveTyping(chatMessages)
                        /\ UNCHANGED <<typesetWaiting, typesetCalls>>
                   ELSE /\ chatMessages' =
                               Append(RemoveTyping(chatMessages),
                                      AssistantBubble(r.id,
                                                      RenderReply(replyText)))
                        /\ TypesetWhenReady
    /\ event' = Ev("chatReply", r.id, data)
    /\ UNCHANGED <<chatInput, nextId, chatFetches, clears, history>>
    /\ UNCHANGED <<hidden, mathJax>>
    /\ UNCHANGED pipeVars

\* ------------------------------------------------------------------------
\* chatClear click handler
\* ------------------------------------------------------------------------
\* clears counts the handler invocations whose fetch('/clear_history') has
\* not settled. After a non-2xx response the handler still awaits res.text(),
\* but all it does afterwards is console.error and return, so the invocation
\* is over, as far as the widget's state goes, when the fetch settles.

\* click: fetch('/clear_history', ...) is issued and awaited
ClearClick ==
    /\ history # "init"
    /\ clears < MaxClears
    /\ clears' = clears + 1
    /\ event' = Ev("clearClick", 0, <<>>)
    /\ UNCHANGED <<chatInput, chatMessages, chats, nextId, chatFetches,
                   history>>
    /\ UNCHANGED pipeVars
    /\ UNCHANGED pageVars

\* fetch rejects: catch (err) logs
ClearFetchRejected ==
    /\ clears > 0
    /\ clears' = clears - 1
    /\ event' = Ev("clearFetchRejected", 0, <<>>)
    /\ UNCHANGED <<chatInput, chatMessages, chats, nextId, chatFetches,
                   history>>
    /\ UNCHANGED pipeVars
    /\ UNCHANGED pageVars

\* variant of ClearServerError without the return: the panel is reset
ClearServerErrorResets ==
    /\ clears > 0
    /\ clears' = clears - 1
    /\ chatMessages' = <<ClearedMessage>>
    /\ event' = Ev("clearServerError", 0, <<>>)
    /\ UNCHANGED <<chatInput, chats, nextId, chatFetches, history>>
    /\ UNCHANGED pipeVars
    /\ UNCHANGED pageVars

\* fetch resolves with !res.ok: the error body is logged, then return
ClearServerError ==
    /\ clears > 0
    /\ clears' = clears - 1
    /\ event' = Ev("clearServerError", 0, <<>>)
    /\ UNCHANGED <<chatInput, chatMessages, chats, nextId, chatFetches,
                   history>>
    /\ UNCHANGED pipeVars
    /\ UNCHANGED pageVars

\* fetch resolves with res.ok: chatMessages.innerHTML = (cleared message)
ClearOk ==
    /\ clears > 0
    /\ clears' = clears - 1
    /\ chatMessages' = <<ClearedMessage>>
    /\ event' = Ev("clearOk", 0, <<>>)
    /\ UNCHANGED <<chatInput, chats, nextId, chatFetches, history>>
    /\ UNCHANGED pipeVars
    /\ UNCHANGED pageVars

\* ------------------------------------------------------------------------
\* DOMContentLoaded handler (history replay)
\* ------------------------------------------------------------------------
Turn(role, content) == [role |-> role, content |-> content]

TurnContents == { <<" ">>, <<"a">> }

Turns == { Turn(ro, c) : ro \in {"human", "ai"}, c \in TurnContents }

RECURSIVE SeqsUpTo(_, _)
SeqsUpTo(S, n) ==
    IF n = 0 THEN { <<>> }
    ELSE LET P == SeqsUpTo(S, n - 1)
         IN  P \cup { Append(q, x) : q \in {p \in P : Len(p) = n - 1}, x \in S }

\* bodies of 2xx /chat_history responses: null, {}, {history: [...]}
HistoryBodies ==
    { [kind |-> "null", present |-> FALSE, history |-> <<>>],
      [kind |-> "object", present |-> FALSE, history |-> <<>>] }
    \cup { [kind |-> "object", present |-> TRUE, history |-> h] :
               h \in SeqsUpTo(Turns, MaxHist) }

\* the /chat_history bodies of the widget specification
ReplayBodies ==
    { [kind |-> "null", present |-> FALSE, history |-> <<>>],
      [kind |-> "object", present |-> TRUE, history |-> <<>>],
      [kind |-> "object", present |-> TRUE,
       history |-> <<Turn("human", <<"a">>), Turn("ai", <<"a">>)>>] }

\* the bubbles one turn appends (none for an ai turn whose html is empty)
RenderTurn(turn) ==
    IF turn.role = "human" THEN <<UserBubble(0, turn.content)>>
    ELSE IF turn.role = "ai"
         THEN LET html == RenderReply(Trim(turn.content))
              IN  IF html = <<>> THEN <<>> ELSE <<AssistantBubble(0, html)>>
         ELSE <<>>

\* variant of ForEachTurn inserting 'afterbegin' instead of 'beforeend'
RECURSIVE ForEachTurnPrepending(_, _)
ForEachTurnPrepending(h, msgs) ==
    IF h = <<>> THEN msgs
    ELSE ForEachTurnPrepending(Tail(h), RenderTurn(Head(h)) \o msgs)

\* variant of ForEachTurn in which an empty ai turn ends the loop
RECURSIVE ForEachTurnStopping(_, _)
ForEachTurnStopping(h, msgs) ==
    IF h = <<>> THEN msgs
    ELSE IF RenderTurn(Head(h)) = <<>> THEN msgs
         ELSE ForEachTurnStopping(Tail(h), msgs \o RenderTurn(Head(h)))

\* history.forEach(turn => ...) with insertAdjacentHTML('beforeend', ...)
RECURSIVE ForEachTurn(_, _)
ForEachTurn(h, msgs) ==
    IF h = <<>> THEN msgs
    ELSE ForEachTurn(Tail(h), msgs \o RenderTurn(Head(h)))

\* the event fires: fetch('/chat_history') is issued and awaited
DOMContentLoaded ==
    /\ history = "init"
    /\ history' = "fetch"
    /\ event' = Ev("DOMContentLoaded", 0, <<>>)
    /\ UNCHANGED <<chatInput, chatMessages, chats, nextId, chatFetches,
                   clears>>
    /\ UNCHANGED pipeVars
    /\ UNCHANGED pageVars

\* fetch rejects (catch logs), or resolves with !res.ok (return)
HistoryFetchFailed(rejected) ==
    /\ history = "fetch"
    /\ history' = "done"
    /\ event' = Ev(IF rejected THEN "historyFetchRejected"
                   ELSE "historyFetchNotOk", 0, <<>>)
    /\ UNCHANGED <<chatInput, chatMessages, chats, nextId, chatFetches,
                   clears>>
    /\ UNCHANGED pipeVars
    /\ UNCHANGED pageVars

\* fetch resolves with res.ok: res.json() is awaited
HistoryFetchOk ==
    /\ history = "fetch"
    /\ history' = "json"
    /\ event' = Ev("historyFetchOk", 0, <<>>)
    /\ UNCHANGED <<chatInput, chatMessages, chats, nextId, chatFetches,
                   clears>>
    /\ UNCHANGED pipeVars
    /\ UNCHANGED pageVars

\* res.json() rejects: catch logs
HistoryJsonRejected ==
    /\ history = "json"
    /\ history' = "done"
    /\ event' = Ev("historyJsonRejected", 0, <<>>)
    /\ UNCHANGED <<chatInput, chatMessages, chats, nextId, chatFetches,
                   clears>>
    /\ UNCHANGED pipeVars
    /\ UNCHANGED pageVars

\* res.json() resolves with data; the rest of the try block runs
HistoryLoaded(data) ==
    /\ history = "json"
    /\ history' = "done"
    /\ LET h == IF data.present THEN data.history ELSE <<>>   \* || []
       IN  IF data.kind = "null" \/ Len(h) = 0
           THEN /\ chatMessages' = chatMessages  \* TypeError -> catch, or return
                /\ UNCHANGED <<typesetWaiting, typesetCalls>>
           ELSE /\ chatMessages' = ForEachTurn(h, <<>>)
                /\ TypesetWhenReady
    /\ event' = Ev("historyLoaded", 0, data)
    /\ UNCHANGED <<chatInput, chats, nextId, chatFetches, clears>>
    /\ UNCHANGED <<hidden, mathJax>>
    /\ UNCHANGED pipeVars

\* ------------------------------------------------------------------------
\* The widget
\* ------------------------------------------------------------------------
\* the modal starts hidden; main.js runs before the MathJax script has set
\* anything up
PageIdle ==
    /\ hidden = TRUE
    /\ mathJax = "undefined"
    /\ typesetWaiting = 0
    /\ typesetCalls = 0

PipeIdle ==
    /\ text = <<>>
    /\ stage = "idle"
    /\ replaced = <<>>
    /\ math = <<>>
    /\ htmlWithPlaceholders = <<>>
    /\ replyHtml = <<>>

Init ==
    /\ chatInput = <<>>
    /\ chatMessages = <<DefaultGreeting>>
    /\ chats = {}
    /\ nextId = 1
    /\ chatFetches = 0
    /\ clears = 0
    /\ history = "init"
    /\ event = NoEvent
    /\ PageIdle
    /\ PipeIdle

\* The form, clear-history and history replay.  The modal and the typesetting
\* engine do not act on the panel; they have their own specifications
\* (SpecModal, SpecTypeset) and keep their initial state here.
Next ==
    \/ \E v \in InputValues : TypeInput(v)
    \/ Submit
    \/ \E r \in chats : ChatFetchRejected(r)
    \/ \E r \in chats, ok \in BOOLEAN : ChatFetchResolved(r, ok)
    \/ \E r \in chats : ChatServerError(r)
    \/ \E r \in chats : ChatJsonRejected(r)
    \/ \E r \in chats, data \in WidgetBodies : ChatReply(r, data)
    \/ ClearClick
    \/ ClearFetchRejected
    \/ ClearServerError
    \/ ClearOk
    \/ DOMContentLoaded
    \/ \E rejected \in BOOLEAN : HistoryFetchFailed(rejected)
    \/ HistoryFetchOk
    \/ HistoryJsonRejected
    \/ \E data \in ReplayBodies : HistoryLoaded(data)

Spec == Init /\ [][Next]_vars

\* ------------------------------------------------------------------------
\* The submit handler alone, with every body of ChatBodies
\* ------------------------------------------------------------------------
NextReply ==
    \/ \E v \in InputValues : TypeInput(v)
    \/ Submit
    \/ \E r \in chats : ChatFetchRejected(r)
    \/ \E r \in chats, ok \in BOOLEAN : ChatFetchResolved(r, ok)
    \/ \E r \in chats : ChatServerError(r)
    \/ \E r \in chats : ChatJsonRejected(r)
    \/ \E r \in chats, data \in ChatBodies : ChatReply(r, data)
    \/ DOMContentLoaded
    \/ \E rejected \in BOOLEAN : HistoryFetchFailed(rejected)

SpecReply == Init /\ [][NextReply]_vars

\* ------------------------------------------------------------------------
\* History replay with every history of up to MaxHist turns, against a panel
\* that submissions may already have added to
\* ------------------------------------------------------------------------
NextReplay ==
    \/ \E v \in InputValues : TypeInput(v)
    \/ Submit
    \/ \E r \in chats : ChatFetchRejected(r)
    \/ DOMContentLoaded
    \/ \E rejected \in BOOLEAN : HistoryFetchFailed(rejected)
    \/ HistoryFetchOk
    \/ HistoryJsonRejected
    \/ \E data \in HistoryBodies : HistoryLoaded(data)

SpecReplay == Init /\ [][NextReplay]_vars

\* ------------------------------------------------------------------------
\* The modal: open, close, outside click, Escape
\* ------------------------------------------------------------------------
chatVars == <<chatInput, chatMessages, chats, nextId, chatFetches, clears,
              history>>

\* elements a pointer press can hit: the panel, an element inside it, the
\* open button, anything else of the document
Targets == {"chatPanel", "insidePanel", "askBtn", "elsewhere"}

Keys == {"Escape", "Enter"}

\* chatPanel.contains(e.target)
Contains(target) == target \in {"chatPanel", "insidePanel"}

\* chatModal.classList.remove('hidden')  (and a deferred chatInput.focus())
openChat == hidden' = FALSE

\* chatModal.classList.add('hidden')
closeChat == hidden' = TRUE

\* askBtn 'click' listener
AskBtnClick ==
    /\ openChat
    /\ event' = Ev("askBtnClick", 0, <<>>)
    /\ UNCHANGED chatVars
    /\ UNCHANGED <<mathJax, typesetWaiting, typesetCalls>>
    /\ UNCHANGED pipeVars

\* chatClose 'click' listener
ChatCloseClick ==
    /\ closeChat
    /\ event' = Ev("chatCloseClick", 0, <<>>)
    /\ UNCHANGED chatVars
    /\ UNCHANGED <<mathJax, typesetWaiting, typesetCalls>>
    /\ UNCHANGED pipeVars

\* variant of MouseDown without the test for the open button
MouseDownAnywhereOutside(target) ==
    /\ IF hidden THEN UNCHANGED hidden
       ELSE IF ~Contains(target) THEN closeChat
       ELSE UNCHANGED hidden
    /\ event' = Ev("mousedown", 0, target)
    /\ UNCHANGED chatVars
    /\ UNCHANGED <<mathJax, typesetWaiting, typesetCalls>>
    /\ UNCHANGED pipeVars

\* document 'mousedown' listener
MouseDown(target) ==
    /\ IF hidden THEN UNCHANGED hidden
       ELSE IF ~Contains(target) /\ target # "askBtn" THEN closeChat
       ELSE UNCHANGED hidden
    /\ event' = Ev("mousedown", 0, target)
    /\ UNCHANGED chatVars
    /\ UNCHANGED <<mathJax, typesetWaiting, typesetCalls>>
    /\ UNCHANGED pipeVars

\* document 'keydown' listener
KeyDown(key) ==
    /\ IF ~hidden /\ key = "Escape" THEN closeChat ELSE UNCHANGED hidden
    /\ event' = Ev("keydown", 0, key)
    /\ UNCHANGED chatVars
    /\ UNCHANGED <<mathJax, typesetWaiting, typesetCalls>>
    /\ UNCHANGED pipeVars

\* the modal next to the form: typing and submitting go on while the modal
\* is opened and closed
NextModal ==
    \/ AskBtnClick
    \/ ChatCloseClick
    \/ \E target \in Targets : MouseDown(target)
    \/ \E key \in Keys : KeyDown(key)
    \/ \E v \in InputValues : TypeInput(v)
    \/ Submit
    \/ \E r \in chats : ChatFetchRejected(r)
    \/ DOMContentLoaded
    \/ \E rejected \in BOOLEAN : HistoryFetchFailed(rejected)

SpecModal == Init /\ [][NextModal]_vars

\* ------------------------------------------------------------------------
\* The typesetting engine
\* ------------------------------------------------------------------------
\* the page's inline script assigns a configuration object to window.MathJax
MathJaxConfigured ==
    /\ mathJax = "undefined"
    /\ mathJax' = "config"
    /\ event' = Ev("mathJaxConfigured", 0, <<>>)
    /\ UNCHANGED chatVars
    /\ UNCHANGED <<hidden, typesetWaiting, typesetCalls>>
    /\ UNCHANGED pipeVars

\* the MathJax script runs: window.MathJax becomes the library object, whose
\* startup.promise is pending
MathJaxLoaded ==
    /\ mathJax \in {"undefined", "config"}
    /\ mathJax' = "loading"
    /\ event' = Ev("mathJaxLoaded", 0, <<>>)
    /\ UNCHANGED chatVars
    /\ UNCHANGED <<hidden, typesetWaiting, typesetCalls>>
    /\ UNCHANGED pipeVars

\* startup.promise resolves: the callbacks registered with .then run, each
\* calls mj.typesetPromise
MathJaxReady ==
    /\ mathJax = "loading"
    /\ mathJax' = "ready"
    /\ typesetCalls' = typesetCalls + typesetWaiting
    /\ typesetWaiting' = 0
    /\ event' = Ev("mathJaxReady", 0, <<>>)
    /\ UNCHANGED chatVars
    /\ UNCHANGED hidden
    /\ UNCHANGED pipeVars

\* replies and history replay while the engine loads
NextTypeset ==
    \/ MathJaxConfigured
    \/ MathJaxLoaded
    \/ MathJaxReady
    \/ \E v \in InputValues : TypeInput(v)
    \/ Submit
    \/ \E r \in chats : ChatFetchResolved(r, TRUE)
    \/ \E r \in chats, data \in WidgetBodies : ChatReply(r, data)
    \/ DOMContentLoaded
    \/ HistoryFetchOk
    \/ \E data \in ReplayBodies : HistoryLoaded(data)

SpecTypeset == Init /\ [][NextTypeset]_vars

\* ------------------------------------------------------------------------
\* The math pipeline as a pure computation over bounded texts
\* ------------------------------------------------------------------------
Pieces ==
    { <<"$">>, <<"\\", "[">>, <<"\\", "]">>, <<"\\", "(">>, <<"\\", ")">>,
      <<"a">>, <<"\n">>, Token(0) }

\* "Cost: $$x^2$$ and inline $y$"
CostExample ==
    <<"C", "o", "s", "t", ":", " ", "$", "$", "x", "^", "2", "$", "$", " ",
      "a", "n", "d", " ", "i", "n", "l", "i", "n", "e", " ", "$", "y", "$">>

Texts == { Flatten(ps) : ps \in SeqsUpTo(Pieces, MaxPieces) } \cup {CostExample}

WidgetIdle ==
    /\ chatInput = <<>>
    /\ chatMessages = <<DefaultGreeting>>
    /\ chats = {}
    /\ nextId = 1
    /\ chatFetches = 0
    /\ clears = 0
    /\ history = "init"
    /\ event = NoEvent
    /\ PageIdle

MathInit ==
    /\ WidgetIdle
    /\ text \in Texts
    /\ stage = "raw"
    /\ replaced = <<>>
    /\ math = <<>>
    /\ htmlWithPlaceholders = <<>>
    /\ replyHtml = <<>>

\* const { replaced, math } = extractMathSegments(replyText);
Extract ==
    /\ stage = "raw"
    /\ LET ex == extractMathSegments(text)
       IN  /\ replaced' = ex.replaced
           /\ math' = ex.math
    /\ stage' = "extracted"
    /\ UNCHANGED <<text, htmlWithPlaceholders, replyHtml>>
    /\ UNCHANGED widgetVars

\* const htmlWithPlaceholders = marked.parse(replaced);
Parse ==
    /\ stage = "extracted"
    /\ htmlWithPlaceholders' = MarkedParse(replaced)
    /\ stage' = "parsed"
    /\ UNCHANGED <<text, replaced, math, replyHtml>>
    /\ UNCHANGED widgetVars

\* const replyHtml = restoreMathSegments(htmlWithPlaceholders, math);
Restore ==
    /\ stage = "parsed"
    /\ replyHtml' = restoreMathSegments(htmlWithPlaceholders, math)
    /\ stage' = "restored"
    /\ UNCHANGED <<text, replaced, math, htmlWithPlaceholders>>
    /\ UNCHANGED widgetVars

\* restoreMathSegments applied to the extractor's own output (no renderer)
RestoreExtracted ==
    /\ stage = "extracted"
    /\ replyHtml' = restoreMathSegments(replaced, math)
    /\ stage' = "roundtrip"
    /\ UNCHANGED <<text, replaced, math, htmlWithPlaceholders>>
    /\ UNCHANGED widgetVars

MathNext == Extract \/ Parse \/ Restore \/ RestoreExtracted

SpecMath == MathInit /\ [][MathNext]_vars

\* ------------------------------------------------------------------------
\* Properties
\* ------------------------------------------------------------------------
Count(msgs, kind) == Cardinality({i \in 1..Len(msgs) : msgs[i].kind = kind})

MaxOf2(a, b) == IF a >= b THEN a ELSE b

IsBlank(s) == \A i \in 1..Len(s) : s[i] \in Whitespace

IsReplyKind(b) == b.kind \in {"assistant", "error"}

RECURSIVE WithoutTyping(_)
WithoutTyping(msgs) ==
    IF msgs = <<>> THEN <<>>
    ELSE (IF Head(msgs).kind = "typing" THEN <<>> ELSE <<Head(msgs)>>)
         \o WithoutTyping(Tail(msgs))

Last(msgs) == msgs[Len(msgs)]

\* the steps in which a failed /chat request is handled (the catch block
\* runs after fetch rejected, or after the body of a non-2xx response)
FailureOps == {"chatFetchRejected", "chatServerError"}

\* the steps that end a submit handler invocation
ResolveOps == {"chatFetchRejected", "chatServerError", "chatJsonRejected",
               "chatReply"}

\* C1: handling a failed /chat request (fetch rejected, or non-2xx status)
\* removes one typing placeholder (when the panel holds one), appends exactly
\* one connection-error bubble, the one of that submission, as the last
\* bubble, appends no assistant bubble, and leaves every user bubble, the one
\* of that submission included, in the panel.
C1_FailureShowsOneError ==
    [][event'.op \in FailureOps =>
        /\ Count(chatMessages', "typing")
               = MaxOf2(Count(chatMessages, "typing") - 1, 0)
        /\ Count(chatMessages', "error") = Count(chatMessages, "error") + 1
        /\ Last(chatMessages') = ErrorBubble(event'.id)
        /\ Count(chatMessages', "assistant") = Count(chatMessages, "assistant")
        /\ Len(chatMessages') = Len(chatMessages) + 1
               - (IF Count(chatMessages, "typing") > 0 THEN 1 ELSE 0)
        /\ \A i \in 1..Len(chatMessages) :
               chatMessages[i].kind = "user" =>
                   \E j \in 1..Len(chatMessages') :
                       chatMessages'[j] = chatMessages[i]
    ]_vars

\* a non-2xx failure has been handled: the error bubble of the submission is
\* last, its user bubble is still there, and no typing placeholder is left
C1_Witness ==
    /\ event.op = "chatServerError"
    /\ Last(chatMessages) = ErrorBubble(event.id)
    /\ \E i \in 1..Len(chatMessages) :
           chatMessages[i].kind = "user" /\ chatMessages[i].owner = event.id
    /\ Count(chatMessages, "typing") = 0
    /\ Count(chatMessages, "assistant") = 0

IsNonEmptyString(x) == x.t = "string" /\ x.v # <<>>

\* the reply the claim C2 expects for an object body
FirstNonEmptyField(data) ==
    IF IsNonEmptyString(data.output) THEN data.output.v
    ELSE IF IsNonEmptyString(data.reply) THEN data.reply.v
    ELSE JSONStringify(data)

\* C2 as stated: on a successful /chat response with an object body the
\* typing placeholder is removed and exactly one assistant bubble is appended,
\* which carries the first non-empty of output and reply, or else the JSON
\* text of the body.
C2_FirstNonEmptyFieldShown ==
    [][(event'.op = "chatReply" /\ event'.arg.kind = "object") =>
        /\ Count(chatMessages', "typing")
               = MaxOf2(Count(chatMessages, "typing") - 1, 0)
        /\ Count(chatMessages', "assistant")
               = Count(chatMessages, "assistant") + 1
        /\ Last(chatMessages') =
               AssistantBubble(event'.id,
                               RenderReply(Trim(FirstNonEmptyField(event'.arg))))
    ]_vars

\* the reply of an object body: the first of output, reply that is a string
\* (empty or not), or else the JSON text of the body
FirstStringField(data) ==
    CASE data.output.t = "string" -> data.output.v
      [] data.output.t # "string" /\ data.reply.t = "string" -> data.reply.v
      [] OTHER -> JSONStringify(data)

\* C2 (amended): on a successful /chat response with an object body the reply
\* is the first string-typed of output and reply, or else the JSON text of the
\* body; one typing placeholder is removed; if the trimmed reply is non-empty
\* exactly one assistant bubble carrying it is appended after the bubbles
\* already there, otherwise no bubble is appended. {output:"hello"} shows
\* "hello", {reply:"hi"} shows "hi", {} shows "{}", and an empty output with a
\* reply "hi" shows nothing.
C2_FirstStringFieldShown ==
    [][(event'.op = "chatReply" /\ event'.arg.kind = "object") =>
        LET shown == Trim(FirstStringField(event'.arg))
        IN  /\ Count(chatMessages', "typing")
                   = MaxOf2(Count(chatMessages, "typing") - 1, 0)
            /\ Count(chatMessages', "error") = Count(chatMessages, "error")
            /\ IF shown = <<>>
               THEN WithoutTyping(chatMessages') = WithoutTyping(chatMessages)
               ELSE /\ WithoutTyping(chatMessages')
                          = Append(WithoutTyping(chatMessages),
                                   AssistantBubble(event'.id, RenderReply(shown)))
                    /\ Last(chatMessages').kind = "assistant"
            /\ event'.arg = Obj(Str(Hello), Undefined) => shown = Hello
            /\ event'.arg = Obj(Undefined, Str(Hi)) => shown = Hi
            /\ event'.arg = Obj(Undefined, Undefined) => shown = <<"{", "}">>
            /\ event'.arg = Obj(Str(<<>>), Str(Hi)) => shown = <<>>
    ]_vars

\* the body {} has been handled: the last bubble is the assistant bubble of
\* that submission and carries the rendering of "{}"
C2_Witness ==
    /\ event.op = "chatReply"
    /\ event.arg.kind = "object"
    /\ event.arg.output.t = "undefined"
    /\ event.arg.reply.t = "undefined"
    /\ Last(chatMessages) =
           AssistantBubble(event.id, RenderReply(<<"{", "}">>))
    /\ Count(chatMessages, "typing") = 0

\* C3: a submit whose input is empty or whitespace-only changes nothing: no
\* bubble, no /chat request, the textarea keeps its value, the outstanding
\* requests are the same (and so is everything else of the widget).
C3_BlankSubmitChangesNothing ==
    [][(event'.op = "submit" /\ IsBlank(chatInput)) =>
        /\ chatMessages' = chatMessages
        /\ chatInput' = chatInput
        /\ chats' = chats
        /\ chatFetches' = chatFetches
        /\ UNCHANGED <<nextId, clears, history>>
    ]_vars

\* a whitespace-only submit was rejected while a /chat request is outstanding
\* and the textarea still holds the whitespace
C3_Witness ==
    /\ event.op = "submit"
    /\ event.id = 0
    /\ chatInput # <<>>
    /\ IsBlank(chatInput)
    /\ chats # {}

ClearFailureOps == {"clearFetchRejected", "clearServerError"}

\* C4: a failed /clear_history request (fetch rejected or non-2xx status)
\* leaves the list of bubbles exactly as it was; a successful one resets the
\* panel to the single default message; and no step of the clear handler other
\* than the successful one changes the panel.
C4_ClearOnlyOnSuccess ==
    [][/\ event'.op \in ClearFailureOps => chatMessages' = chatMessages
       /\ event'.op = "clearClick" => chatMessages' = chatMessages
       /\ event'.op = "clearOk" => chatMessages' = <<ClearedMessage>>
    ]_vars

\* a non-2xx /clear_history response has been handled and the panel still
\* holds the bubbles of a submission
C4_Witness ==
    /\ event.op = "clearServerError"
    /\ Count(chatMessages, "user") > 0
    /\ Count(chatMessages, "cleared") = 0

\* C5: a non-empty submit is accepted whatever requests are outstanding (one
\* more outstanding request, user bubble and typing placeholder appended), and
\* every step that ends a submit handler appends its reply or error bubble,
\* if any, after all the bubbles already in the panel, so the bubbles follow
\* the order in which the responses resolve.
C5_SubmitsInterleave ==
    [][/\ (event'.op = "submit" /\ ~IsBlank(chatInput)) =>
            /\ Cardinality(chats') = Cardinality(chats) + 1
            /\ chats \subseteq chats'
            /\ \E r \in chats' \ chats : r.phase = "fetch" /\ r.id = event'.id
            /\ Len(chatMessages') = Len(chatMessages) + 2
            /\ SubSeq(chatMessages', 1, Len(chatMessages)) = chatMessages
            /\ chatMessages'[Len(chatMessages) + 1].kind = "user"
            /\ chatMessages'[Len(chatMessages) + 1].owner = event'.id
            /\ Last(chatMessages') = TypingBubble(event'.id)
       /\ event'.op \in ResolveOps =>
            \/ WithoutTyping(chatMessages') = WithoutTyping(chatMessages)
            \/ /\ WithoutTyping(chatMessages')
                      = Append(WithoutTyping(chatMessages), Last(chatMessages'))
               /\ IsReplyKind(Last(chatMessages'))
               /\ Last(chatMessages').owner = event'.id
    ]_vars

\* two requests were outstanding at once and the reply (or error) bubble of
\* the later submission precedes the one of the earlier submission
C5_Witness ==
    \E i, j \in 1..Len(chatMessages) :
        /\ i < j
        /\ IsReplyKind(chatMessages[i])
        /\ IsReplyKind(chatMessages[j])
        /\ chatMessages[i].owner > chatMessages[j].owner
        /\ chatMessages[j].owner > 0

HistoryFailureOps ==
    {"historyFetchRejected", "historyFetchNotOk", "historyJsonRejected"}

\* the bubble b is what the turn renders to
BubbleOfTurn(b, turn) ==
    \/ /\ turn.role = "human"
       /\ b.kind = "user"
       /\ b.body = escapeHtml(turn.content)
    \/ /\ turn.role = "ai"
       /\ b.kind = "assistant"
       /\ b.body = RenderReply(Trim(turn.content))
       /\ b.body # <<>>

\* msgs is an order-preserving image of h that shows every human turn
OrderPreservingImage(msgs, h) ==
    \E f \in [1..Len(msgs) -> 1..Len(h)] :
        /\ \A i, j \in 1..Len(msgs) : i < j => f[i] < f[j]
        /\ \A i \in 1..Len(msgs) : BubbleOfTurn(msgs[i], h[f[i]])
        /\ \A k \in 1..Len(h) :
               h[k].role = "human" => \E i \in 1..Len(msgs) : f[i] = k

HasEntries(data) == data.kind = "object" /\ data.present /\ data.history # <<>>

\* C6: history replay leaves the panel exactly as it was when the
\* /chat_history request fails or the history is missing or empty; with
\* entries, none of the earlier bubbles remains and the bubbles are the turns'
\* renderings in the order received.
C6_ReplayKeepsOrder ==
    [][/\ event'.op \in HistoryFailureOps => chatMessages' = chatMessages
       /\ (event'.op = "historyLoaded" /\ ~HasEntries(event'.arg)) =>
              chatMessages' = chatMessages
       /\ (event'.op = "historyLoaded" /\ HasEntries(event'.arg)) =>
              /\ OrderPreservingImage(chatMessages', event'.arg.history)
              /\ \A i \in 1..Len(chatMessages') :
                     /\ chatMessages'[i].owner = 0
                     /\ chatMessages'[i].kind \in {"user", "assistant"}
    ]_vars

\* a two-turn history (ai then human) was replayed over a panel that held the
\* bubbles of a submission: the panel is the two renderings, in that order
C6_Witness ==
    /\ event.op = "historyLoaded"
    /\ HasEntries(event.arg)
    /\ nextId > 1
    /\ Len(chatMessages) = 2
    /\ chatMessages[1].kind = "assistant"
    /\ chatMessages[2].kind = "user"

RenderedTurns(h) ==
    {k \in 1..Len(h) :
        \/ h[k].role = "human"
        \/ h[k].role = "ai" /\ RenderReply(Trim(h[k].content)) # <<>>}

\* C7: after a replay of a non-empty history the panel holds as many bubbles
\* as there are human turns plus ai turns with a non-empty rendering; a turn
\* after an empty ai turn is still rendered.
C7_ReplayBubbleCount ==
    [][(event'.op = "historyLoaded" /\ HasEntries(event'.arg)) =>
        /\ Len(chatMessages') = Cardinality(RenderedTurns(event'.arg.history))
        /\ Count(chatMessages', "user")
               = Cardinality({k \in 1..Len(event'.arg.history) :
                                 event'.arg.history[k].role = "human"})
    ]_vars

\* the history was an ai turn with empty rendering followed by a human turn:
\* exactly one bubble, the human one
C7_Witness ==
    /\ event.op = "historyLoaded"
    /\ HasEntries(event.arg)
    /\ Len(event.arg.history) = 2
    /\ event.arg.history[1].role = "ai"
    /\ RenderReply(Trim(event.arg.history[1].content)) = <<>>
    /\ event.arg.history[2].role = "human"
    /\ Len(chatMessages) = 1
    /\ chatMessages[1].kind = "user"

\* s has no substring of the form @@MATH<n>@@
NoTokenShaped(s) == \A i \in 1..Len(s) : TokenEnd(s, i) = 0

\* C8: for every text without a token-shaped substring, restoring the
\* extractor's output with the extractor's table gives the text back.
C8_RoundTrip ==
    (stage = "roundtrip" /\ NoTokenShaped(text)) => replyHtml = text

\* C9: for every text without a token-shaped substring, the html after
\* restoration has no token-shaped substring, and no segment of the table
\* contains one.
C9_TokensConsumed ==
    (stage = "restored" /\ NoTokenShaped(text)) =>
        /\ NoTokenShaped(replyHtml)
        /\ \A k \in 1..Len(math) : NoTokenShaped(math[k])

\* the segment is, from its first to its last character, one match of re
FullMatch(re, seg) == seg # <<>> /\ MatchEnd(re, seg, 1) = Len(seg)

PassOf(seg) == CHOOSE re \in 1..4 : FullMatch(re, seg)

\* the indices of the tokens of s, from left to right
RECURSIVE TokenIds(_, _)
TokenIds(s, i) ==
    IF i > Len(s) THEN <<>>
    ELSE LET e == TokenEnd(s, i)
         IN  IF e = 0 THEN TokenIds(s, i + 1)
             ELSE <<StringToNum(SubSeq(s, i + 6, e - 2))>> \o TokenIds(s, e + 1)

\* every token replaced by its segment, n times over
RECURSIVE Expand(_, _, _)
Expand(s, table, n) ==
    IF n = 0 THEN s ELSE Expand(restoreMathSegments(s, table), table, n - 1)

CostSegments ==
    << <<"$", "$", "x", "^", "2", "$", "$">>, <<"$", "y", "$">> >>

CostReplaced ==
    <<"C", "o", "s", "t", ":", " ">> \o Token(0)
        \o <<" ", "a", "n", "d", " ", "i", "n", "l", "i", "n", "e", " ">>
        \o Token(1)

\* C10: after extraction every table entry is one match of one of the four
\* patterns and the entries are in priority order of their patterns ($$..$$,
\* \[..\], $..$, \(..\)); for a text without token-shaped substrings the
\* tokens of one pattern appear in the text in increasing index order and
\* putting the entries back for their tokens gives the original text; the example
\* "Cost: $$x^2$$ and inline $y$" yields ["$$x^2$$", "$y$"] and
\* "Cost: @@MATH0@@ and inline @@MATH1@@".
C10_PriorityOrder ==
    stage = "extracted" =>
        /\ \A k \in 1..Len(math) : \E re \in 1..4 : FullMatch(re, math[k])
        /\ \A j, k \in 1..Len(math) :
               j < k => PassOf(math[j]) <= PassOf(math[k])
        /\ NoTokenShaped(text) =>
               LET ids == TokenIds(replaced, 1)
               IN  /\ \A p \in 1..Len(ids) : ids[p] < Len(math)
                   /\ \A p, q \in 1..Len(ids) :
                          (/\ p < q
                           /\ PassOf(math[ids[p] + 1]) = PassOf(math[ids[q] + 1]))
                              => ids[p] < ids[q]
                   /\ Expand(replaced, math, Len(math)) = text
        /\ text = CostExample =>
               math = CostSegments /\ replaced = CostReplaced

\* the example text has been extracted into two segments
C10_Witness ==
    /\ stage = "extracted"
    /\ text = CostExample
    /\ Len(math) = 2
    /\ TokenIds(replaced, 1) = <<0, 1>>

\* s has no dollar sign and no \[ \] \( \) sequence
NoDelimiters(s) ==
    /\ \A i \in 1..Len(s) : s[i] # "$"
    /\ \A i \in 1..(Len(s) - 1) :
           s[i] = "\\" => s[i + 1] \notin {"[", "]", "(", ")"}

\* C11: for a text without LaTeX delimiters extractMathSegments returns the
\* text unchanged and an empty segment table.
C11_NoDelimitersUnchanged ==
    (stage = "extracted" /\ NoDelimiters(text)) =>
        /\ replaced = text
        /\ math = <<>>

\* a non-empty text without delimiters has been extracted
C11_Witness ==
    /\ stage = "extracted"
    /\ NoDelimiters(text)
    /\ Len(text) >= 2
    /\ replaced = text
    /\ math = <<>>

\* C12: a 2xx /chat response whose payload is malformed or empty (body not
\* JSON, body null, reply empty after trimming) removes one typing
\* placeholder and appends neither an assistant bubble nor an error bubble.
C12_MalformedIsNothingToShow ==
    [][(\/ event'.op = "chatJsonRejected"
        \/ /\ event'.op = "chatReply"
           /\ \/ event'.arg.kind = "null"
              \/ Trim(FirstStringField(event'.arg)) = <<>>) =>
        /\ Count(chatMessages', "typing")
               = MaxOf2(Count(chatMessages, "typing") - 1, 0)
        /\ Count(chatMessages', "assistant") = Count(chatMessages, "assistant")
        /\ Count(chatMessages', "error") = Count(chatMessages, "error")
    ]_vars

\* the positions at which a token starts, in a left-to-right scan that
\* resumes after each token
RECURSIVE TokenStarts(_, _)
TokenStarts(s, i) ==
    IF i > Len(s) THEN <<>>
    ELSE IF TokenEnd(s, i) = 0 THEN TokenStarts(s, i + 1)
         ELSE <<i>> \o TokenStarts(s, TokenEnd(s, i) + 1)

\* entry i of the table (counted from 0), the empty string outside 0..n-1
EntryOrEmpty(table, i) == IF i < Len(table) THEN table[i + 1] ELSE <<>>

\* out is s with each token occurrence replaced by its table entry: the
\* stretches between the tokens are kept, in order, and the k-th token is
\* replaced by the entry of its index
RECURSIVE Substituted(_, _, _, _)
Substituted(s, table, starts, from) ==
    IF starts = <<>> THEN SubSeq(s, from, Len(s))
    ELSE LET b == Head(starts)
             e == TokenEnd(s, b)
         IN  SubSeq(s, from, b - 1)
                 \o EntryOrEmpty(table, StringToNum(SubSeq(s, b + 6, e - 2)))
                 \o Substituted(s, table, Tail(starts), e + 1)

\* C13: restoreMathSegments replaces every token @@MATH<i>@@ by entry i of the
\* table and a token whose index is outside 0..n-1 by the empty string, and
\* yields a string in every case.
C13_RestoreEveryToken ==
    /\ stage = "roundtrip" =>
           replyHtml = Substituted(replaced, math, TokenStarts(replaced, 1), 1)
    /\ stage = "restored" =>
           replyHtml = Substituted(htmlWithPlaceholders, math,
                                   TokenStarts(htmlWithPlaceholders, 1), 1)

\* the restored text held a token whose index the table does not have, next
\* to other text: the token vanished and the other text was kept
C13_Witness ==
    /\ stage = "roundtrip"
    /\ \E p \in 1..Len(TokenIds(replaced, 1)) :
           TokenIds(replaced, 1)[p] >= Len(math)
    /\ NoTokenShaped(replyHtml)
    /\ replyHtml # <<>>

\* C14: for live replies and for history replay alike, no call of
\* typesetPromise happens before the engine has signalled that it is ready:
\* a step that calls it ends in a state where startup.promise is resolved,
\* and calls have only been made once it is.
C14_TypesetAfterReady ==
    [][/\ typesetCalls' > typesetCalls => mathJax' = "ready"
       /\ typesetCalls' > 0 => mathJax' = "ready"]_vars

\* a reply or a replay arrived while the engine was loading, and its
\* typesetting was carried out when the engine became ready
C14_Witness ==
    /\ event.op = "mathJaxReady"
    /\ typesetCalls > 0
    /\ \E i \in 1..Len(chatMessages) : chatMessages[i].kind = "assistant"

\* C16: while the modal is open, Escape closes it and a pointer press whose
\* target is outside the panel and is not the open button closes it; a press
\* inside the panel or on the open button leaves it open; while it is hidden,
\* Escape and pointer presses leave it hidden; a click on the open button
\* always opens it.
C16_ModalStateMachine ==
    [][/\ (event'.op = "keydown" /\ event'.arg = "Escape" /\ ~hidden)
              => hidden'
       /\ (event'.op = "mousedown" /\ ~hidden)
              => (hidden' <=> event'.arg \notin
                                  {"chatPanel", "insidePanel", "askBtn"})
       /\ (event'.op \in {"keydown", "mousedown"} /\ hidden) => hidden'
       /\ event'.op = "askBtnClick" => ~hidden'
    ]_vars

\* the modal was open and a press on the open button left it open
C16_Witness ==
    /\ event.op = "mousedown"
    /\ event.arg = "askBtn"
    /\ ~hidden
    /\ nextId > 1

AcceptedSubmit(e) == e.op = "submit" /\ e.id > 0

\* C15: each accepted submission issues exactly one /chat request and
\* nothing else issues one: the number of requests ever issued equals the
\* number of accepted submissions, and a failed request is not retried.
C15_OneRequestPerSubmission ==
    [][/\ chatFetches' = nextId' - 1
       /\ AcceptedSubmit(event') => chatFetches' = chatFetches + 1
       /\ ~AcceptedSubmit(event') => chatFetches' = chatFetches
       /\ chats' \subseteq
              chats \cup {r \in chats' : r.id = event'.id /\ r.id >= nextId}
              \cup {r \in chats' : \E q \in chats :
                        q.id = r.id /\ q.phase = "fetch" /\ r.phase # "fetch"}
    ]_vars

\* two submissions were accepted, the request of the first one failed, and
\* two requests have been issued
C15_Witness ==
    /\ event.op \in FailureOps
    /\ nextId = 3
    /\ chatFetches = 2
    /\ Cardinality(chats) = 1

\* C17: an accepted submission appends, in one step, the user bubble with the
\* trimmed and HTML-escaped text and directly after it the typing
\* placeholder, clears the input, and issues a request that carries the
\* trimmed text under both keys message and messages.
C17_SubmitStep ==
    [][AcceptedSubmit(event') =>
        LET t == Trim(chatInput)
            n == Len(chatMessages)
        IN  /\ t # <<>>
            /\ Len(chatMessages') = n + 2
            /\ SubSeq(chatMessages', 1, n) = chatMessages
            /\ chatMessages'[n + 1].kind = "user"
            /\ chatMessages'[n + 1].body = escapeHtml(t)
            /\ (t = <<"a", "<", "b">>) =>
                   chatMessages'[n + 1].body = <<"a", "&", "l", "t", ";", "b">>
            /\ chatMessages'[n + 2].kind = "typing"
            /\ chatInput' = <<>>
            /\ \E r \in chats' \ chats :
                   /\ chats' = chats \cup {r}
                   /\ r.phase = "fetch"
                   /\ r.body.message = t
                   /\ r.body.messages = t
    ]_vars

\* a submission of " a<b " was accepted while an earlier one was pending
C17_Witness ==
    /\ AcceptedSubmit(event)
    /\ event.arg = <<"a", "<", "b">>
    /\ Cardinality(chats) = 2
    /\ chatInput = <<>>
    /\ Last(chatMessages).kind = "typing"

\* C18: the panel never holds more typing placeholders than there are
\* unresolved /chat requests; with no request outstanding it holds none.
C18_TypingBoundedByRequests ==
    Count(chatMessages, "typing") <= Cardinality(chats)

\* two submissions overlapped and both requests have been resolved: no
\* placeholder is left
C18_Witness ==
    /\ event.op \in ResolveOps
    /\ nextId = 3
    /\ chats = {}
    /\ Count(chatMessages, "typing") = 0
    /\ Count(chatMessages, "user") = 2

\* C19: after a successful clear-history the panel holds only the default
\* message until the next submission: a /chat response that resolves on the
\* cleared panel adds neither a reply nor an error bubble.
C19_ClearedPanelStaysCleared ==
    [][(chatMessages = <<ClearedMessage>> /\ event'.op \in ResolveOps) =>
           /\ Count(chatMessages', "assistant") = 0
           /\ Count(chatMessages', "error") = 0
    ]_vars

\* C20: a user bubble appended by a submission stays in the panel until a
\* successful clear-history; history replay removes neither that bubble nor
\* the typing placeholder of its outstanding request.
C20_UserBubbleStays ==
    [][/\ event'.op # "clearOk" =>
              \A i \in 1..Len(chatMessages) :
                  (chatMessages[i].kind = "user" /\ chatMessages[i].owner > 0)
                      => \E j \in 1..Len(chatMessages') :
                             chatMessages'[j] = chatMessages[i]
       /\ event'.op = "historyLoaded" =>
              Count(chatMessages', "typing") = Count(chatMessages, "typing")
    ]_vars

====
